---- MODULE Spec2Model ----
(***************************************************************************)
(* The AAMVA 2020 record codec: the field normalizers and the record       *)
(* encoder of utils/aamva.ts and the rule table and record validator of    *)
(* utils/validator.ts, and the date normalizer of the scan service.        *)
(*                                                                         *)
(* A JavaScript string is a sequence of character codes (7-bit ASCII).     *)
(* The value undefined and a thrown TypeError are the one-element          *)
(* sequences Undefined and TypeError, whose codes are no character.        *)
(***************************************************************************)
EXTENDS Integers, Sequences, FiniteSets, TLC

VARIABLES
  pc,         \* position of the caller: start, generated, threw, validated
  formData,   \* the FieldSet handed to the encoder
  expected,   \* the FieldSet handed to the validator
  subfields,  \* the subfields array generateAAMVAString built
  raw,        \* the record generateAAMVAString returned
  report,     \* the ValidationReport validateAAMVAStructure returned
  heightIn,   \* the argument of a formatHeight call
  heightOut,  \* the result of that call
  sanitizeIn,     \* the first argument of a sanitize call
  placeholderIn,  \* its second argument
  sanitizeOut,    \* the result of that call
  dateIn,     \* the argument of a normalizeDate call
  date,       \* what new Date(dateIn) gave in that call
  dateOut,    \* the result of that call
  ruleTag,    \* the tag whose rule is tested
  ruleValue,  \* the value handed to AAMVA_RULES[ruleTag].regex.test
  ruleOk,     \* what the test returned
  lastIndex,  \* the lastIndex property of each rule's regular expression
  responseText,  \* response.text in a scanDLWithGemini call
  scanOut,       \* what that call returned or threw
  step,                  \* App: the screen shown, SELECT, FORM or RESULT
  selectedJurisdiction,  \* App: index in JURISDICTIONS, 0 for null
  isScanning,            \* App: the scanning flag
  scanPc,     \* position of the pending handleImageScan call
  file,       \* the file that call was given
  updates,    \* what scanDLWithGemini returned to that call
  touched     \* what the user did while that call was pending

sanitizeVars == <<sanitizeIn, placeholderIn, sanitizeOut>>
dateVars == <<dateIn, date, dateOut>>
ruleVars == <<ruleTag, ruleValue, ruleOk>>
ocrVars == <<responseText, scanOut>>
appVars == <<step, selectedJurisdiction, isScanning, scanPc, file, updates, touched>>
\* The variables of the calls that come after the codec's.
otherVars == <<ruleVars, lastIndex, ocrVars, appVars>>

vars == <<pc, formData, expected, subfields, raw, report, heightIn, heightOut,
          sanitizeVars, dateVars, otherVars>>

-----------------------------------------------------------------------------
(* Characters and string literals *)

\* The printable ASCII characters, codes 32..126 in order (the grave accent,
\* code 96, cannot be written as a literal and is held by name).
Ascii ==
  << " ", "!", "\"", "#", "$", "%", "&", "'", "(", ")", "*", "+", ",", "-", ".", "/",
     "0", "1", "2", "3", "4", "5", "6", "7", "8", "9", ":", ";", "<", "=", ">", "?",
     "@", "A", "B", "C", "D", "E", "F", "G", "H", "I", "J", "K", "L", "M", "N", "O",
     "P", "Q", "R", "S", "T", "U", "V", "W", "X", "Y", "Z", "[", "\\", "]", "^", "_",
     "grave", "a", "b", "c", "d", "e", "f", "g", "h", "i", "j", "k", "l", "m", "n", "o",
     "p", "q", "r", "s", "t", "u", "v", "w", "x", "y", "z", "{", "|", "}", "~" >>

Ord(ch) == 31 + (CHOOSE i \in 1..Len(Ascii) : Ascii[i] = ch)

\* The string whose characters are the one-character strings of the tuple t.
Str(t) == [i \in 1..Len(t) |-> Ord(t[i])]

LF == 10
RS == 30
CR == 13

Undefined == << -1 >>
TypeError == << -2 >>

IsDigit(c) == c \in 48..57
IsUpper(c) == c \in 65..90
IsLower(c) == c \in 97..122
\* The characters /[\x20-\x7E]/ matches.
IsPrintable(c) == c \in 32..126
\* The ASCII characters the regular-expression class \s and trim() treat as
\* white space: tab, line feed, vertical tab, form feed, carriage return, space.
IsSpace(c) == c \in {9, 10, 11, 12, 13, 32}

-----------------------------------------------------------------------------
(* JavaScript string operations *)

\* a || b on strings: undefined and "" are falsy.
Falsy(v) == v = Undefined \/ v = <<>>
Or(a, b) == IF Falsy(a) THEN b ELSE a

toUpperCase(s) == [i \in 1..Len(s) |-> IF IsLower(s[i]) THEN s[i] - 32 ELSE s[i]]

\* trim that removes the leading white space only.
trim_Leading(s) ==
  IF \A i \in 1..Len(s) : IsSpace(s[i]) THEN <<>>
  ELSE SubSeq(s, CHOOSE k \in 1..Len(s) : ~IsSpace(s[k]) /\ \A j \in 1..(k - 1) : IsSpace(s[j]),
              Len(s))

trim(s) ==
  IF \A i \in 1..Len(s) : IsSpace(s[i]) THEN <<>>
  ELSE LET n     == Len(s)
           \* the number of white-space characters at either end
           lead  == CHOOSE k \in 0..(n - 1) :
                      ~IsSpace(s[k + 1]) /\ \A j \in 1..k : IsSpace(s[j])
           trail == CHOOSE k \in 0..(n - 1) :
                      ~IsSpace(s[n - k]) /\ \A j \in (n - k + 1)..n : IsSpace(s[j])
       IN SubSeq(s, lead + 1, n - trail)

\* s.substring(from, to) with 0-based bounds, clamped to the string.
substring(s, from, to) ==
  LET a == IF from > Len(s) THEN Len(s) ELSE from
      b == IF to > Len(s) THEN Len(s) ELSE to
  IN IF a >= b THEN <<>> ELSE SubSeq(s, a + 1, b)

Repeat(c, n) == [i \in 1..n |-> c]

padStart(s, n, c) == IF Len(s) >= n THEN s ELSE Repeat(c, n - Len(s)) \o s
padEnd(s, n, c) == IF Len(s) >= n THEN s ELSE s \o Repeat(c, n - Len(s))

startsWith(s, p) == Len(s) >= Len(p) /\ SubSeq(s, 1, Len(p)) = p

endsWith(s, p) == Len(s) >= Len(p) /\ SubSeq(s, Len(s) - Len(p) + 1, Len(s)) = p

includes(s, p) ==
  \E i \in 0..(Len(s) - Len(p)) : SubSeq(s, i + 1, i + Len(p)) = p

\* The positions of s holding a character of seps, in increasing order.
RECURSIVE SortedFrom(_, _)
SortedFrom(P, acc) ==
  IF P = {} THEN acc
  ELSE LET m == CHOOSE x \in P : \A y \in P : x <= y
       IN SortedFrom(P \ {m}, Append(acc, m))

\* s.split(/[seps]/): the pieces between separator characters, empty ones kept.
split(s, seps) ==
  LET pos == SortedFrom({i \in 1..Len(s) : s[i] \in seps}, <<>>)
      n   == Len(pos)
      lo(k) == IF k = 1 THEN 1 ELSE pos[k - 1] + 1
      hi(k) == IF k = n + 1 THEN Len(s) ELSE pos[k] - 1
  IN [k \in 1..(n + 1) |-> SubSeq(s, lo(k), hi(k))]

\* Number.prototype.toString() of a natural number.
RECURSIVE toString(_)
toString(n) ==
  IF n < 10 THEN << 48 + n >> ELSE Append(toString(n \div 10), 48 + (n % 10))

\* The value of a string of decimal digits.
RECURSIVE DigitsValue(_)
DigitsValue(d) ==
  IF d = <<>> THEN 0
  ELSE 10 * DigitsValue(SubSeq(d, 1, Len(d) - 1)) + (d[Len(d)] - 48)

\* A JavaScript number that is a natural number: its decimal digits, most
\* significant first and without leading zeros, <<0>> for zero. The digits are
\* the number's exact value, so the numbers formed below are those a double
\* holds exactly.
StripZeros(d) ==
  IF \A i \in 1..Len(d) : d[i] = 0 THEN <<0>>
  ELSE SubSeq(d, CHOOSE k \in 1..Len(d) : d[k] # 0 /\ \A j \in 1..(k - 1) : d[j] = 0,
              Len(d))

\* a + b + carry on digit sequences.
RECURSIVE Plus(_, _, _)
Plus(a, b, carry) ==
  IF a = <<>> /\ b = <<>> THEN (IF carry = 0 THEN <<>> ELSE <<carry>>)
  ELSE LET x   == IF a = <<>> THEN 0 ELSE a[Len(a)]
           y   == IF b = <<>> THEN 0 ELSE b[Len(b)]
           sum == x + y + carry
           fa  == IF a = <<>> THEN <<>> ELSE SubSeq(a, 1, Len(a) - 1)
           fb  == IF b = <<>> THEN <<>> ELSE SubSeq(b, 1, Len(b) - 1)
       IN Append(Plus(fa, fb, sum \div 10), sum % 10)

\* (feet * 12) + inches
Times12Plus(feet, inches) ==
  StripZeros(Plus(Plus(Plus(Append(feet, 0), feet, 0), feet, 0), inches, 0))

\* Number.prototype.toString() of such a number: its digits below 10^21, and
\* from there on the exponent form d[.ddd]e+NN of its significant digits.
numberToString(n) ==
  IF Len(n) <= 21 THEN [i \in 1..Len(n) |-> 48 + n[i]]
  ELSE LET last == CHOOSE k \in 1..Len(n) :
                     n[k] # 0 /\ \A j \in (k + 1)..Len(n) : n[j] = 0
           frac == [i \in 1..(last - 1) |-> 48 + n[i + 1]]
       IN << 48 + n[1] >>
          \o (IF last > 1 THEN <<Ord(".")>> \o frac ELSE <<>>)
          \o <<Ord("e"), Ord("+")>> \o toString(Len(n) - 1)

\* parseInt(s, 10) || 0 for a string without a minus sign: leading white
\* space and one plus sign are skipped, the longest run of digits is read,
\* and NaN (no digit there) becomes 0.
parseIntOr0(s) ==
  LET ws  == IF \A i \in 1..Len(s) : IsSpace(s[i]) THEN Len(s)
             ELSE (CHOOSE i \in 1..Len(s) :
                     ~IsSpace(s[i]) /\ \A j \in 1..(i - 1) : IsSpace(s[j])) - 1
      t   == SubSeq(s, ws + 1, Len(s))
      u   == IF t # <<>> /\ t[1] = 43 THEN Tail(t) ELSE t
      k   == IF \A i \in 1..Len(u) : IsDigit(u[i]) THEN Len(u)
             ELSE (CHOOSE i \in 1..Len(u) :
                     ~IsDigit(u[i]) /\ \A j \in 1..(i - 1) : IsDigit(u[j])) - 1
  IN StripZeros([i \in 1..k |-> u[i] - 48])

-----------------------------------------------------------------------------
(* FieldSets: JavaScript objects, as sequences of <<key, value>> entries in  *)
(* insertion order, no key twice                                            *)

Keys(data) == {data[i][1] : i \in 1..Len(data)}

\* data.key, undefined when the object has no such property.
Get(data, key) ==
  IF \E i \in 1..Len(data) : data[i][1] = key
  THEN data[CHOOSE i \in 1..Len(data) : data[i][1] = key][2]
  ELSE Undefined

\* { ...data, [key]: val }: an existing key keeps its place, a new one is
\* added last. With val undefined the property is left out instead.
With(data, key, val) ==
  IF val = Undefined THEN SelectSeq(data, LAMBDA e : e[1] # key)
  ELSE IF key \in Keys(data)
       THEN [i \in 1..Len(data) |-> IF data[i][1] = key THEN <<key, val>> ELSE data[i]]
       ELSE Append(data, <<key, val>>)

IIN == Str(<<"I", "I", "N">>)
Version == Str(<<"V", "e", "r", "s", "i", "o", "n">>)
JurisdictionVersion == Str(<<"J", "V">>)
subfileType == Str(<<"s", "u", "b", "f", "i", "l", "e", "T", "y", "p", "e">>)

DCA == Str(<<"D", "C", "A">>)
DCB == Str(<<"D", "C", "B">>)
DCD == Str(<<"D", "C", "D">>)
DBA == Str(<<"D", "B", "A">>)
DCS == Str(<<"D", "C", "S">>)
DAC == Str(<<"D", "A", "C">>)
DAD == Str(<<"D", "A", "D">>)
DBD == Str(<<"D", "B", "D">>)
DBB == Str(<<"D", "B", "B">>)
DBC == Str(<<"D", "B", "C">>)
DAY == Str(<<"D", "A", "Y">>)
DAU == Str(<<"D", "A", "U">>)
DAG == Str(<<"D", "A", "G">>)
DAI == Str(<<"D", "A", "I">>)
DAJ == Str(<<"D", "A", "J">>)
DAK == Str(<<"D", "A", "K">>)
DAQ == Str(<<"D", "A", "Q">>)
DCF == Str(<<"D", "C", "F">>)
DCG == Str(<<"D", "C", "G">>)
DCU == Str(<<"D", "C", "U">>)
DDA == Str(<<"D", "D", "A">>)
DDK == Str(<<"D", "D", "K">>)
DAW == Str(<<"D", "A", "W">>)
DAZ == Str(<<"D", "A", "Z">>)
DDE == Str(<<"D", "D", "E">>)
DDF == Str(<<"D", "D", "F">>)
DDG == Str(<<"D", "D", "G">>)

NONE == Str(<<"N", "O", "N", "E">>)
unavl == Str(<<"u", "n", "a", "v", "l">>)

-----------------------------------------------------------------------------
(* utils/aamva.ts: the normalizers *)

\* The height normalizer that writes 000 IN for a height without digits.
formatHeight_Zero(hgt) ==
  IF hgt = Undefined THEN TypeError
  ELSE LET digits == SelectSeq(hgt, IsDigit)
       IN padStart(digits, 3, Ord("0")) \o Str(<<" ", "I", "N">>)

formatHeight(hgt) ==
  IF hgt = Undefined THEN TypeError      \* undefined.split throws
  ELSE
    LET parts == split(hgt, {Ord("'"), Ord("-")})
    IN IF Len(parts) >= 2
       THEN LET feet        == parseIntOr0(parts[1])
                inches      == parseIntOr0(parts[2])
                totalInches == Times12Plus(feet, inches)
            IN padStart(numberToString(totalInches), 3, Ord("0")) \o Str(<<" ", "I", "N">>)
       ELSE LET digits == SelectSeq(hgt, IsDigit)
            IN IF Len(digits) > 0
               THEN padStart(digits, 3, Ord("0")) \o Str(<<" ", "I", "N">>)
               ELSE unavl

formatWeight(w) ==
  IF w = Undefined THEN TypeError        \* undefined.replace throws
  ELSE LET digits == SelectSeq(w, IsDigit)
       IN IF Len(digits) > 0
          THEN padStart(digits, 3, Ord("0")) \o Str(<<" ", "L", "B">>)
          ELSE unavl

\* sanitize without its placeholder: an empty result is returned as it is.
sanitize_NoPlaceholder(val, placeholder) ==
  trim(SelectSeq(toUpperCase(Or(val, <<>>)), IsPrintable))

sanitize(val, placeholder) ==
  LET cleaned == trim(SelectSeq(toUpperCase(Or(val, <<>>)), IsPrintable))
  IN IF cleaned = <<>>
     THEN (IF placeholder = NONE THEN NONE ELSE unavl)
     ELSE cleaned

-----------------------------------------------------------------------------
(* utils/aamva.ts: the encoder *)

\* The subfields array once a normalizer has thrown.
Thrown == << TypeError >>

\* The closure add(tag, val, isMandatory): the subfields after the call, or
\* Thrown when a normalizer throws.
add(fields, tag, val, isMandatory) ==
  LET cleanVal == IF tag = DAU THEN formatHeight(val)
                  ELSE IF tag = DAW THEN formatWeight(val)
                  ELSE sanitize(val, IF isMandatory THEN NONE ELSE unavl)
  IN IF cleanVal = TypeError THEN Thrown
     ELSE IF cleanVal # <<>> \/ isMandatory THEN Append(fields, tag \o cleanVal)
     ELSE fields

\* The calls of add made for the object's own keys, in insertion order.
AddCalls_ObjectOrder(data) ==
  LET tags == SelectSeq(data, LAMBDA e : Len(e[1]) = 3 /\ e[1] # IIN)
  IN [i \in 1..Len(tags) |-> <<tags[i][1], tags[i][2], TRUE>>]

\* The calls of add that generateAAMVAString makes, in program order: each
\* the tag, the argument and the isMandatory flag. The three guarded optional
\* elements are called only when their value is truthy.
AddCalls(data) ==
  LET m(tag)       == << <<tag, Get(data, tag), TRUE>> >>
      md(tag, def) == << <<tag, Or(Get(data, tag), def), TRUE>> >>
      og(tag)      == IF Falsy(Get(data, tag)) THEN <<>>
                      ELSE << <<tag, Get(data, tag), FALSE>> >>
      o(tag)       == << <<tag, Get(data, tag), FALSE>> >>
  IN md(DCA, Str(<<"C">>)) \o m(DCB) \o m(DCD) \o m(DBA) \o m(DCS) \o m(DAC)
     \o m(DAD) \o m(DBD) \o m(DBB) \o m(DBC) \o m(DAY) \o m(DAU) \o m(DAG)
     \o m(DAI) \o m(DAJ) \o m(DAK) \o m(DAQ) \o m(DCF)
     \o md(DCG, Str(<<"U", "S", "A">>))
     \o og(DCU) \o og(DDA) \o og(DDK) \o o(DAW) \o o(DAZ)
     \o md(DDE, Str(<<"N">>)) \o md(DDF, Str(<<"N">>)) \o md(DDG, Str(<<"N">>))

RECURSIVE RunAdds(_, _, _)
RunAdds(calls, i, fields) ==
  IF fields = Thrown \/ i > Len(calls) THEN fields
  ELSE RunAdds(calls, i + 1, add(fields, calls[i][1], calls[i][2], calls[i][3]))

\* subfields.join(sep)
RECURSIVE join(_, _)
join(parts, sep) ==
  IF parts = <<>> THEN <<>>
  ELSE IF Len(parts) = 1 THEN parts[1]
  ELSE join(SubSeq(parts, 1, Len(parts) - 1), sep) \o <<sep>> \o parts[Len(parts)]

Subfields(data) == RunAdds(AddCalls(data), 1, <<>>)

SubfileTypeOf(data) == Or(Get(data, subfileType), Str(<<"D", "L">>))

\* The subfile body with the two separators exchanged.
SubfileBody_Swapped(fields) == join(fields, CR) \o <<LF>>

SubfileBody(fields) == join(fields, LF) \o <<CR>>

FullSubfile(type, fields) == type \o SubfileBody(fields)

\* The header without its compliance indicator.
Header_NoIndicator(data) ==
  <<LF, RS, CR>> \o Str(<<"A", "N", "S", "I", " ">>)
  \o padEnd(substring(Or(Get(data, IIN), Str(<<"6", "3", "6", "0", "0", "0">>)), 0, 6),
            6, Ord("0"))
  \o Str(<<"1", "0">>)
  \o padStart(Or(Get(data, JurisdictionVersion), Str(<<"0", "0">>)), 2, Ord("0"))
  \o Str(<<"0", "1">>)

Header(data) ==
  Str(<<"@">>) \o <<LF, RS, CR>> \o Str(<<"A", "N", "S", "I", " ">>)
  \o padEnd(substring(Or(Get(data, IIN), Str(<<"6", "3", "6", "0", "0", "0">>)), 0, 6),
            6, Ord("0"))
  \o Str(<<"1", "0">>)
  \o padStart(Or(Get(data, JurisdictionVersion), Str(<<"0", "0">>)), 2, Ord("0"))
  \o Str(<<"0", "1">>)

Designator(type, fullSubfile) ==
  type \o Str(<<"0", "0", "3", "1">>)
  \o padStart(toString(Len(fullSubfile)), 4, Ord("0"))

generateAAMVAString(data) ==
  LET fields == Subfields(data)
  IN IF fields = Thrown THEN TypeError
     ELSE LET type        == SubfileTypeOf(data)
              fullSubfile == FullSubfile(type, fields)
          IN Header(data) \o Designator(type, fullSubfile) \o fullSubfile

-----------------------------------------------------------------------------
(* The scan service: the date normalizer *)

\* normalizeDate(raw), where parsed is the Date that new Date(raw) constructs:
\* valid is !isNaN(getTime()), month is getMonth(), date is getDate() and
\* year is getFullYear().
normalizeDate(rawDate, parsed) ==
  IF Falsy(rawDate) THEN <<>>
  ELSE LET digits == SelectSeq(rawDate, IsDigit)
       IN IF Len(digits) = 8 THEN digits
          ELSE IF parsed.valid
          THEN LET m == padStart(toString(parsed.month + 1), 2, Ord("0"))
                   d == padStart(toString(parsed.date), 2, Ord("0"))
                   y == toString(parsed.year)
               IN m \o d \o y
          ELSE substring(padEnd(digits, 8, Ord("0")), 0, 8)

-----------------------------------------------------------------------------
(* utils/validator.ts: the rule table *)

\* The tags of the table in alphabetical order.
RuleTags_Alphabetical ==
  <<DAC, DAD, DAG, DAI, DAJ, DAK, DAQ, DAU, DAY, DBA, DBB, DBC, DBD, DCG, DCS>>

\* Object.keys(AAMVA_RULES), in the table's order.
RuleTags == <<DAQ, DCS, DAC, DAD, DBB, DBA, DBD, DBC, DAY, DAU, DAG, DAI, DAJ, DAK, DCG>>

\* Every character of v is in the class and the length is in lo..hi: the
\* shape /^[class]{lo,hi}$/ of the table's regular expressions.
AllIn(v, lo, hi, class) ==
  Len(v) \in lo..hi /\ \A i \in 1..Len(v) : v[i] \in class

\* The character classes of the table, as sets of code points.
IdClass == {c \in 0..127 : IsUpper(c) \/ IsDigit(c) \/ c = Ord("-") \/ IsSpace(c)}
\* The name class without the apostrophe.
NameClass_NoApostrophe == {c \in 0..127 : IsUpper(c) \/ IsSpace(c) \/ c = Ord("-")}
NameClass == {c \in 0..127 : IsUpper(c) \/ IsSpace(c) \/ c = Ord("-") \/ c = Ord("'")}
DigitClass == {c \in 0..127 : IsDigit(c)}
UpperClass == {c \in 0..127 : IsUpper(c)}
PrintableClass == {c \in 0..127 : IsPrintable(c)}

\* AAMVA_RULES[tag].regex.test(v)
RuleTest(tag, v) ==
  CASE tag = DAQ -> AllIn(v, 1, 25, IdClass)
    [] tag = DCS -> AllIn(v, 1, 40, NameClass)
    [] tag = DAC -> AllIn(v, 1, 40, NameClass)
    [] tag = DAD -> AllIn(v, 0, 40, NameClass)
    [] tag = DBB -> AllIn(v, 8, 8, DigitClass)
    [] tag = DBA -> AllIn(v, 8, 8, DigitClass)
    [] tag = DBD -> AllIn(v, 8, 8, DigitClass)
    [] tag = DBC -> Len(v) = 1 /\ v[1] \in {Ord("1"), Ord("2"), Ord("9")}
    [] tag = DAY -> AllIn(v, 3, 3, UpperClass)
    [] tag = DAU -> /\ Len(v) = 6
                    /\ \A i \in 1..3 : IsDigit(v[i])
                    /\ IsSpace(v[4])
                    /\ SubSeq(v, 5, 6) \in {Str(<<"I", "N">>), Str(<<"C", "M">>)}
    [] tag = DAG -> AllIn(v, 1, 35, PrintableClass)
    [] tag = DAI -> AllIn(v, 1, 20, PrintableClass)
    [] tag = DAJ -> AllIn(v, 2, 2, UpperClass)
    [] tag = DAK -> AllIn(v, 5, 11, IdClass)
    [] tag = DCG -> v \in {Str(<<"U", "S", "A">>), Str(<<"C", "A", "N">>)}

\* AAMVA_RULES[tag].desc
RuleDesc(tag) ==
  CASE tag = DAQ -> "ID Number (ANS, max 25)"
    [] tag = DCS -> "Last Name (ANS, max 40)"
    [] tag = DAC -> "First Name (ANS, max 40)"
    [] tag = DAD -> "Middle Name (ANS, max 40)"
    [] tag = DBB -> "DOB (MMDDYYYY)"
    [] tag = DBA -> "Expiry (MMDDYYYY)"
    [] tag = DBD -> "Issue Date (MMDDYYYY)"
    [] tag = DBC -> "Sex (1=M, 2=F, 9=U)"
    [] tag = DAY -> "Eyes (3-letter code)"
    [] tag = DAU -> "Height (e.g. 071 IN)"
    [] tag = DAG -> "Address (ANS, max 35)"
    [] tag = DAI -> "City (ANS, max 20)"
    [] tag = DAJ -> "State (2-letter code)"
    [] tag = DAK -> "Postal Code (ANS)"
    [] tag = DCG -> "Country (USA/CAN)"

-----------------------------------------------------------------------------
(* utils/validator.ts: the validator *)

MISSING == Str(<<"M", "I", "S", "S", "I", "N", "G">>)

\* The header errors pushed by validateAAMVAStructure.
HeaderErrors(rawString) ==
  (IF ~startsWith(rawString, Str(<<"@">>))
   THEN <<"Missing '@' Compliance Indicator">> ELSE <<>>)
  \o (IF ~includes(rawString, Str(<<"A", "N", "S", "I", " ">>))
      THEN <<"Missing 'ANSI ' file type">> ELSE <<>>)

\* raw.split(/[\x0A\x1E\x0D]/)
Lines(rawString) == split(rawString, {LF, RS, CR})

\* The index of the last line that starts with the tag, 0 when there is none.
FindLine_Last(lines, tag) ==
  IF \E i \in 1..Len(lines) : startsWith(lines[i], tag)
  THEN CHOOSE i \in 1..Len(lines) :
         startsWith(lines[i], tag) /\ \A j \in (i + 1)..Len(lines) : ~startsWith(lines[j], tag)
  ELSE 0

\* lines.find(l => l.startsWith(tag)): the index of the first such line, 0
\* when there is none.
FindLine(lines, tag) ==
  IF \E i \in 1..Len(lines) : startsWith(lines[i], tag)
  THEN CHOOSE i \in 1..Len(lines) :
         startsWith(lines[i], tag) /\ \A j \in 1..(i - 1) : ~startsWith(lines[j], tag)
  ELSE 0

\* value.replace(/[\s\-']/g, '').toUpperCase()
IsSeparator(c) == IsSpace(c) \/ c = Ord("-") \/ c = Ord("'")
IsNotSeparator(c) == ~IsSeparator(c)
\* The normalization without the change to upper case.
Clean_NoUpper(v) == SelectSeq(v, IsNotSeparator)
Clean(v) == toUpperCase(SelectSeq(v, IsNotSeparator))

\* The status when the whole expected value is looked for in the scanned one.
StatusOf_WholeValue(tag, found, value, formValue) ==
  IF ~found
  THEN (IF RuleTest(tag, <<>>) THEN "MATCH" ELSE "MISSING_IN_SCAN")
  ELSE IF ~RuleTest(tag, value) THEN "FORMAT_ERROR"
  ELSE IF formValue # <<>>
  THEN IF tag = DAU /\ includes(value, Str(<<"I", "N">>)) THEN "MATCH"
       ELSE IF ~includes(Clean(value), Clean(formValue)) THEN "MISMATCH"
       ELSE "MATCH"
  ELSE "MATCH"

\* The status the forEach body gives one tag.
StatusOf(tag, found, value, formValue) ==
  IF ~found
  THEN (IF RuleTest(tag, <<>>) THEN "MATCH" ELSE "MISSING_IN_SCAN")
  ELSE IF ~RuleTest(tag, value) THEN "FORMAT_ERROR"
  ELSE IF formValue # <<>>
  THEN LET cleanValue == Clean(value)
           cleanForm  == Clean(formValue)
       IN IF tag = DAU /\ includes(value, Str(<<"I", "N">>)) THEN "MATCH"
          ELSE IF Len(cleanForm) > 0 /\ ~includes(cleanValue, substring(cleanForm, 0, 3))
          THEN "MISMATCH"
          ELSE "MATCH"
  ELSE "MATCH"

\* The ValidationField the forEach body pushes for one tag.
FieldResult(lines, tag, data) ==
  LET idx       == FindLine(lines, tag)
      value     == IF idx # 0 THEN substring(lines[idx], 3, Len(lines[idx])) ELSE <<>>
      formValue == Or(Get(data, tag), <<>>)
  IN [ elementId    |-> tag,
       description  |-> RuleDesc(tag),
       formValue    |-> formValue,
       scannedValue |-> Or(value, MISSING),
       status       |-> StatusOf(tag, idx # 0, value, formValue) ]

\* The score rounded down.
Score_Floor(validTagsCount, n) == (100 * validTagsCount) \div n

\* Math.round((validTagsCount / n) * 100): the quotient is a multiple of
\* 1/3, never half-way, so rounding is to the nearest integer.
Score(validTagsCount, n) == ((200 * validTagsCount) + n) \div (2 * n)

\* The report whose score is not forced to 0 by a header error.
validateAAMVAStructure_Unforced(rawString, data) ==
  LET errors == HeaderErrors(rawString)
      lines  == Lines(rawString)
      results == [k \in 1..Len(RuleTags) |-> FieldResult(lines, RuleTags[k], data)]
      validTagsCount == Cardinality({k \in 1..Len(results) : results[k].status = "MATCH"})
  IN [ isHeaderValid |-> Len(errors) = 0,
       rawString     |-> rawString,
       fields        |-> results,
       overallScore  |-> Score(validTagsCount, Len(RuleTags)) ]

validateAAMVAStructure(rawString, data) ==
  LET errors == HeaderErrors(rawString)
      lines  == Lines(rawString)
      results == [k \in 1..Len(RuleTags) |-> FieldResult(lines, RuleTags[k], data)]
      validTagsCount == Cardinality({k \in 1..Len(results) : results[k].status = "MATCH"})
      overallScore   == Score(validTagsCount, Len(RuleTags))
  IN [ isHeaderValid |-> Len(errors) = 0,
       rawString     |-> rawString,
       fields        |-> results,
       overallScore  |-> IF Len(errors) = 0 THEN overallScore ELSE 0 ]

-----------------------------------------------------------------------------
(* utils/validator.ts: the rule table as an object that calls could change *)

\* The flags of every regular expression of the table, had they been global.
RuleFlags_Global(tag) == Str(<<"g">>)

\* The flags of AAMVA_RULES[tag].regex: every literal of the table is
\* written without a flag.
RuleFlags(tag) == <<>>

\* regex.test(v) on the regular expression of the tag whose lastIndex is idx:
\* the result, and lastIndex after the call. Without the flag g or y the
\* search starts at 0 and lastIndex is left alone; with one, the search
\* starts at lastIndex, where the anchor ^ matches only if it is 0, and
\* lastIndex becomes the end of the match, or 0 without a match.
test(tag, v, idx) ==
  IF \E i \in 1..Len(RuleFlags(tag)) : RuleFlags(tag)[i] \in {Ord("g"), Ord("y")}
  THEN LET found == idx = 0 /\ RuleTest(tag, v)
       IN [result |-> found, lastIndex |-> IF found THEN Len(v) ELSE 0]
  ELSE [result |-> RuleTest(tag, v), lastIndex |-> idx]

\* The value the forEach body tests for one tag: the characters after the
\* tag in the line found, the empty string without a line.
TestedValue(lines, tag) ==
  LET idx == FindLine(lines, tag)
  IN IF idx # 0 THEN substring(lines[idx], 3, Len(lines[idx])) ELSE <<>>

\* The status the forEach body gives one tag, from what its test returned.
StatusGiven(tag, found, passes, value, formValue) ==
  IF ~found
  THEN (IF passes THEN "MATCH" ELSE "MISSING_IN_SCAN")
  ELSE IF ~passes THEN "FORMAT_ERROR"
  ELSE IF formValue # <<>>
  THEN LET cleanValue == Clean(value)
           cleanForm  == Clean(formValue)
       IN IF tag = DAU /\ includes(value, Str(<<"I", "N">>)) THEN "MATCH"
          ELSE IF Len(cleanForm) > 0 /\ ~includes(cleanValue, substring(cleanForm, 0, 3))
          THEN "MISMATCH"
          ELSE "MATCH"
  ELSE "MATCH"

\* validateAAMVAStructure called when the regular expressions of the table
\* have the lastIndex values idx: the report, and the values after the call.
validateWith(idx, rawString, data) ==
  LET errors == HeaderErrors(rawString)
      lines  == Lines(rawString)
      tested == [k \in 1..Len(RuleTags) |->
                   test(RuleTags[k], TestedValue(lines, RuleTags[k]), idx[k])]
      results == [k \in 1..Len(RuleTags) |->
                    LET tag == RuleTags[k]
                        formValue == Or(Get(data, tag), <<>>)
                        value == TestedValue(lines, tag)
                    IN [ elementId    |-> tag,
                         description  |-> RuleDesc(tag),
                         formValue    |-> formValue,
                         scannedValue |-> Or(value, MISSING),
                         status       |-> StatusGiven(tag, FindLine(lines, tag) # 0,
                                                      tested[k].result, value, formValue) ]]
      validTagsCount == Cardinality({k \in 1..Len(results) : results[k].status = "MATCH"})
      overallScore   == Score(validTagsCount, Len(RuleTags))
  IN [ report |-> [ isHeaderValid |-> Len(errors) = 0,
                    rawString     |-> rawString,
                    fields        |-> results,
                    overallScore  |-> IF Len(errors) = 0 THEN overallScore ELSE 0 ],
       lastIndex |-> [k \in 1..Len(RuleTags) |-> tested[k].lastIndex] ]

-----------------------------------------------------------------------------
(* The strict variant of the validator: its header check *)

\* parseInt(s, 10): leading white space is skipped, a sign and the leading
\* digits are read; without a digit the result is NaN.
parseInt(s) ==
  LET ws  == IF \A i \in 1..Len(s) : IsSpace(s[i]) THEN Len(s)
             ELSE (CHOOSE i \in 1..Len(s) :
                     ~IsSpace(s[i]) /\ \A j \in 1..(i - 1) : IsSpace(s[j])) - 1
      t   == SubSeq(s, ws + 1, Len(s))
      neg == t # <<>> /\ t[1] = Ord("-")
      u   == IF t # <<>> /\ t[1] \in {Ord("+"), Ord("-")} THEN Tail(t) ELSE t
      k   == IF \A i \in 1..Len(u) : IsDigit(u[i]) THEN Len(u)
             ELSE (CHOOSE i \in 1..Len(u) :
                     ~IsDigit(u[i]) /\ \A j \in 1..(i - 1) : IsDigit(u[j])) - 1
      v[i \in 0..k] == IF i = 0 THEN 0 ELSE 10 * v[i - 1] + (u[i] - 48)
  IN [isNaN |-> k = 0, value |-> IF neg THEN 0 - v[k] ELSE v[k]]

\* The errors the strict validator pushes for the header and the designator.
StrictErrors(rawString) ==
  LET compliance == IF Len(rawString) > 0 THEN <<rawString[1]>> ELSE Undefined
      separators == substring(rawString, 1, 4)
      fileType   == substring(rawString, 4, 9)
      version    == substring(rawString, 15, 17)
      offsetStr  == substring(rawString, 23, 27)
      offset     == parseInt(offsetStr)
  IN (IF compliance # Str(<<"@">>)
      THEN <<"Compliance indicator '@' missing">> ELSE <<>>)
     \o (IF separators # <<LF, RS, CR>>
         THEN <<"Header separators (LF, RS, CR) incorrect">> ELSE <<>>)
     \o (IF fileType # Str(<<"A", "N", "S", "I", " ">>)
         THEN <<"File type must be 'ANSI '">> ELSE <<>>)
     \o (IF version # Str(<<"1", "0">>)
         THEN <<"AAMVA Version must be '10' for 2020 standard">> ELSE <<>>)
     \o (IF offset.isNaN \/ offset.value # 31
         THEN <<"Designator offset mismatch">> ELSE <<>>)

-----------------------------------------------------------------------------
(* utils/ocr.ts: the end of scanDLWithGemini, from the response to the result *)

Quote == Ord("\"")

\* The index of the first double quote of t at or after i, 0 when there is none.
NextQuote(t, i) ==
  IF \E j \in i..Len(t) : t[j] = Quote
  THEN CHOOSE j \in i..Len(t) : t[j] = Quote /\ \A k \in i..(j - 1) : t[k] # Quote
  ELSE 0

\* The members of a JSON object read from index i of t, where a member
\* "key":"value" must start, up to the closing brace, which must end the
\* text; acc holds the members read so far, a repeated key keeping its last
\* value. The result is <<FALSE, acc>> on a syntax error.
RECURSIVE ParseMembers(_, _, _)
ParseMembers(t, i, acc) ==
  LET k1 == NextQuote(t, i + 1)
      v0 == k1 + 2
      v1 == NextQuote(t, v0 + 1)
      bad == <<FALSE, acc>>
  IN IF i > Len(t) \/ t[i] # Quote \/ k1 = 0 THEN bad
     ELSE IF v0 > Len(t) \/ t[k1 + 1] # Ord(":") \/ t[v0] # Quote \/ v1 = 0 THEN bad
     ELSE LET key  == SubSeq(t, i + 1, k1 - 1)
              val  == SubSeq(t, v0 + 1, v1 - 1)
              next == With(acc, key, val)
          IN IF v1 + 1 > Len(t) THEN bad
             ELSE IF t[v1 + 1] = Ord("}")
                  THEN (IF v1 + 1 = Len(t) THEN <<TRUE, next>> ELSE bad)
             ELSE IF t[v1 + 1] = Ord(",") THEN ParseMembers(t, v1 + 2, next)
             ELSE bad

\* JSON.parse(text) on the texts the schema of the request allows: an object
\* of string members without escapes, the literal null, and anything else,
\* which is a syntax error. The result tells whether the call threw, whether
\* it returned null, and the object it returned.
JSONparse(text) ==
  IF text = Str(<<"n", "u", "l", "l">>)
  THEN [threw |-> FALSE, isNull |-> TRUE, object |-> <<>>]
  ELSE IF text = Str(<<"{", "}">>)
  THEN [threw |-> FALSE, isNull |-> FALSE, object |-> <<>>]
  ELSE IF Len(text) < 2 \/ text[1] # Ord("{")
  THEN [threw |-> TRUE, isNull |-> FALSE, object |-> <<>>]
  ELSE LET members == ParseMembers(text, 2, <<>>)
       IN [threw |-> ~members[1], isNull |-> FALSE,
           object |-> IF members[1] THEN members[2] ELSE <<>>]

\* val.replace(/\D/g, '')
DigitsOnly(v) == SelectSeq(v, IsDigit)

\* What scanDLWithGemini does with response.text: the try block and its
\* catch. Object.keys(null) throws inside the try block.
scanResult(text) ==
  LET parsed == JSONparse(Or(text, Str(<<"{", "}">>)))
  IN IF parsed.threw \/ parsed.isNull
     THEN [threw |-> TRUE, message |-> "Parse error", cleaned |-> <<>>]
     ELSE [threw |-> FALSE, message |-> "",
           cleaned |-> [i \in 1..Len(parsed.object) |->
                          LET key == parsed.object[i][1]
                              v   == trim(toUpperCase(Or(parsed.object[i][2], <<>>)))
                          IN <<key, IF key \in {DBA, DBB, DBD} THEN DigitsOnly(v) ELSE v>>]]

-----------------------------------------------------------------------------
(* App.tsx: the screens, the jurisdiction, the form and the scan *)

\* A sample of the JURISDICTIONS table: a retired format listed before the
\* current one of the same state, and another state.
JURISDICTIONS ==
  << [name |-> Str(<<"T", "e", "x", "a", "s", " ", "(", "O", "l", "d", ")">>),
      code |-> Str(<<"T", "X">>), iin |-> Str(<<"6", "3", "6", "0", "1", "5">>),
      version |-> Str(<<"0", "1">>), country |-> Undefined],
     [name |-> Str(<<"T", "e", "x", "a", "s">>),
      code |-> Str(<<"T", "X">>), iin |-> Str(<<"6", "3", "6", "0", "1", "5">>),
      version |-> Str(<<"1", "0">>), country |-> Undefined],
     [name |-> Str(<<"O", "n", "t", "a", "r", "i", "o">>),
      code |-> Str(<<"O", "N">>), iin |-> Str(<<"6", "3", "6", "0", "1", "2">>),
      version |-> Str(<<"0", "6">>), country |-> Str(<<"C", "A", "N">>)] >>

\* detectJurisdictionFromCode(code): the index of the first jurisdiction of
\* that code whose name does not hold "Old", 0 for null.
detectJurisdictionFromCode(code) ==
  LET wanted == toUpperCase(Or(code, <<>>))
      fits(i) == /\ JURISDICTIONS[i].code = wanted
                 /\ ~includes(JURISDICTIONS[i].name, Str(<<"O", "l", "d">>))
  IN IF \E i \in 1..Len(JURISDICTIONS) : fits(i)
     THEN CHOOSE i \in 1..Len(JURISDICTIONS) : fits(i) /\ \A j \in 1..(i - 1) : ~fits(j)
     ELSE 0

\* { ...prev, ...more }
RECURSIVE Spread(_, _)
Spread(prev, more) ==
  IF more = <<>> THEN prev
  ELSE Spread(With(prev, more[1][1], more[1][2]), Tail(more))

\* The form after handleSelectJurisdiction(JURISDICTIONS[j]).
Selected(prev, j) ==
  LET jur == JURISDICTIONS[j]
  IN Spread(prev, << <<DAJ, jur.code>>, <<IIN, jur.iin>>,
                     <<JurisdictionVersion, jur.version>>,
                     <<DCG, Or(jur.country, Str(<<"U", "S", "A">>))>> >>)

\* The form after a scan that returned the mapping more.
Scanned(prev, more) ==
  LET detectedJur == IF Falsy(Get(more, DAJ)) THEN 0
                     ELSE detectJurisdictionFromCode(Get(more, DAJ))
  IN IF detectedJur # 0
     THEN Spread(Spread(prev, more),
                 << <<IIN, JURISDICTIONS[detectedJur].iin>>,
                    <<DAJ, JURISDICTIONS[detectedJur].code>>,
                    <<JurisdictionVersion, JURISDICTIONS[detectedJur].version>> >>)
     ELSE Spread(prev, more)

-----------------------------------------------------------------------------
(* The inputs the calls are made on *)

\* The number of properties by which an input FieldSet differs from a base one.
MaxOverrides == 1
\* The length of the free-form height strings.
MaxHeightLen == 3
\* The length of the over-long street address.
LongLen == 10000
\* The number of zeros of the over-long figure of feet or inches.
HugeZeros == 21
\* The length of the strings sanitize is called on.
MaxSanitizeLen == 3
\* The length of the longest all-digit string normalizeDate is called on.
MaxDateDigits == 10

AllKeys ==
  <<IIN, Version, JurisdictionVersion, subfileType,
    DCA, DCB, DCD, DBA, DCS, DAC, DAD, DBD, DBB, DBC, DAY, DAU,
    DAG, DAI, DAJ, DAK, DAQ, DCF, DCG, DAW, DAZ, DCU, DDA, DDK, DDE, DDF, DDG>>

\* useState<DLFormData>({...}): the form's initial FieldSet.
AppInitial ==
  << <<IIN, <<>>>>, <<Version, Str(<<"1", "0">>)>>,
     <<JurisdictionVersion, Str(<<"0", "0">>)>>, <<subfileType, Str(<<"D", "L">>)>>,
     <<DCA, Str(<<"C">>)>>, <<DCB, NONE>>, <<DCD, NONE>>, <<DBA, <<>>>>,
     <<DCS, <<>>>>, <<DAC, <<>>>>, <<DAD, <<>>>>, <<DBD, <<>>>>, <<DBB, <<>>>>,
     <<DBC, Str(<<"1">>)>>, <<DAY, Str(<<"B", "R", "O">>)>>,
     <<DAU, Str(<<"5", "-", "0", "4">>)>>,
     <<DAG, <<>>>>, <<DAI, <<>>>>, <<DAJ, <<>>>>, <<DAK, <<>>>>, <<DAQ, <<>>>>,
     <<DCF, <<>>>>, <<DCG, Str(<<"U", "S", "A">>)>>,
     <<DAW, Str(<<"1", "6", "5">>)>>, <<DAZ, Str(<<"B", "R", "O">>)>>,
     <<DCU, <<>>>>, <<DDA, Str(<<"F">>)>>, <<DDK, Str(<<"1">>)>>,
     <<DDE, Str(<<"N">>)>>, <<DDF, Str(<<"N">>)>>, <<DDG, Str(<<"N">>)>> >>

\* A form filled in completely with values the rule table accepts.
Populated ==
  << <<IIN, Str(<<"6", "3", "6", "0", "1", "4">>)>>, <<Version, Str(<<"1", "0">>)>>,
     <<JurisdictionVersion, Str(<<"0", "8">>)>>, <<subfileType, Str(<<"D", "L">>)>>,
     <<DCA, Str(<<"C">>)>>, <<DCB, NONE>>, <<DCD, NONE>>,
     <<DBA, Str(<<"0", "1", "1", "5", "2", "0", "3", "0">>)>>,
     <<DCS, Str(<<"S", "M", "I", "T", "H">>)>>, <<DAC, Str(<<"J", "O", "H", "N">>)>>,
     <<DAD, Str(<<"Q">>)>>,
     <<DBD, Str(<<"0", "1", "1", "5", "2", "0", "2", "2">>)>>,
     <<DBB, Str(<<"0", "1", "1", "5", "1", "9", "9", "0">>)>>,
     <<DBC, Str(<<"1">>)>>, <<DAY, Str(<<"B", "R", "O">>)>>,
     <<DAU, Str(<<"5", "-", "1", "1">>)>>,
     <<DAG, Str(<<"1", " ", "M", "A", "I", "N", " ", "S", "T">>)>>,
     <<DAI, Str(<<"L", "A">>)>>, <<DAJ, Str(<<"C", "A">>)>>,
     <<DAK, Str(<<"9", "0", "0", "0", "1">>)>>,
     <<DAQ, Str(<<"D", "1", "2", "3", "4", "5", "6", "7">>)>>,
     <<DCF, Str(<<"X", "1">>)>>, <<DCG, Str(<<"U", "S", "A">>)>>,
     <<DAW, Str(<<"1", "6", "5">>)>>, <<DAZ, Str(<<"B", "R", "O">>)>>,
     <<DCU, Str(<<"J", "R">>)>>, <<DDA, Str(<<"F">>)>>, <<DDK, Str(<<"1">>)>>,
     <<DDE, Str(<<"N">>)>>, <<DDF, Str(<<"N">>)>>, <<DDG, Str(<<"N">>)>> >>

\* An object holding the two properties whose normalizers need a string.
Sparse == << <<DAW, <<>>>>, <<DAU, <<>>>> >>

Bases == {AppInitial, Populated, Sparse}

\* The values a property is overridden with, besides undefined and "".
Special(key) ==
  CASE key = IIN -> {Str(<<"6", "3">>), Str(<<"6", "3", "6", "0", "1", "4", "9">>),
                     <<RS>> \o Str(<<"D", "A", "Q", "!", "!", "!">>)}
    [] key = JurisdictionVersion -> {Str(<<"8">>), Str(<<"1", "2", "3">>)}
    [] key = subfileType -> {Str(<<"I", "D">>)}
    [] key = DCS -> {Str(<<" ", "s", "m", "i", "t", "h", " ">>),
                     <<1>> \o Str(<<"S", "M", "I", "T", "H", "S">>),
                     Str(<<"S", "M", "I", "T", "H", "3">>)}
    [] key = DBC -> {Str(<<"M">>)}
    [] key = DBB -> {Str(<<"0", "1", "/", "1", "5", "/", "1", "9", "9", "0">>)}
    [] key = DAK -> {Str(<<" ", " ", " ", " ", " ">>)}
    [] key = DAU -> {Str(<<"5", "'", "1", "1", "\"">>), Str(<<"5", "'", "-", "1", "1", "\"">>),
                     Str(<<"0", "7", "1", " ", "I", "N">>), Str(<<"a", "b", "c">>)}
    [] key = DAW -> {Str(<<"1", "8", "5", " ", "l", "b", "s">>)}
    [] key \in {DCU, DDA, DDK, DAZ} -> {Str(<<" ">>)}
    [] OTHER -> {}

Pool(key) == {Undefined, <<>>} \cup Special(key)

\* The FieldSets that differ from a base one in at most n properties.
RECURSIVE Overridden(_)
Overridden(n) ==
  IF n = 0 THEN Bases
  ELSE LET prev == Overridden(n - 1)
       IN prev \cup { With(d, AllKeys[k], v) :
                        <<d, k, v>> \in { <<d, k, v>> \in prev \X (1..Len(AllKeys)) \X
                                            UNION {Pool(AllKeys[j]) : j \in 1..Len(AllKeys)} :
                                          v \in Pool(AllKeys[k]) } }

FieldSets == Overridden(MaxOverrides)

\* A street address of n characters.
LongAddress(n) == Repeat(Ord("A"), n)

\* The FieldSets with a street address of n characters: a base one with one
\* more property emptied.
LongFieldSets(n) ==
  { With(With(d, AllKeys[k], <<>>), DAG, LongAddress(n)) :
      d \in {AppInitial, Populated}, k \in 1..Len(AllKeys) }

\* The same object with its properties inserted in the opposite order.
Reversed(data) == [i \in 1..Len(data) |-> data[Len(data) + 1 - i]]

\* The expected FieldSets a record is validated against.
ExpectedChoices(data) == {data, <<>>, Populated}

\* The height strings formatHeight is called on: every string of at most
\* MaxHeightLen of the characters below, and the feet-inches forms.
HeightChars == {Ord("5"), Ord("1"), Ord("'"), Ord("-"), Ord("\""), Ord(" ")}

RECURSIVE StringsUpTo(_, _)
StringsUpTo(chars, n) ==
  IF n = 0 THEN {<<>>}
  ELSE LET prev == StringsUpTo(chars, n - 1)
       IN prev \cup {Append(s, c) : s \in prev, c \in chars}

FeetInchesForms ==
  { f \o sep \o i \o q :
      f   \in {Str(<<"5">>), Str(<<"6">>), Str(<<" ", "5">>)},
      sep \in {Str(<<"-">>), Str(<<"'">>), Str(<<"'", "-">>)},
      i   \in {Str(<<"0">>), Str(<<"4">>), Str(<<"1", "1">>)},
      q   \in {<<>>, Str(<<"\"">>)} }

\* Feet-inches forms whose figure of feet or of inches is 1 followed by
\* HugeZeros zeros.
HugeForms ==
  LET huge == Str(<<"1">>) \o Repeat(Ord("0"), HugeZeros)
  IN {huge \o Str(<<"-", "0">>), huge \o Str(<<"'", "0", "\"">>), Str(<<"0", "-">>) \o huge}

HeightInputs ==
  StringsUpTo(HeightChars, MaxHeightLen) \cup FeetInchesForms \cup HugeForms
  \cup {Str(<<"0", "7", "1", " ", "I", "N">>), Str(<<"1", "8", "0", " ", "C", "M">>),
        Str(<<"7", "1">>), Str(<<"a", "b", "c">>), Str(<<"1", "2", "3", "4", "5">>)}

\* The strings sanitize is called on: undefined, and every string of at most
\* MaxSanitizeLen of the characters below (a letter of either case, a space,
\* the three separators and DEL).
SanitizeChars == {Ord("a"), Ord("Z"), Ord(" "), LF, RS, CR, 127}

SanitizeInputs == {Undefined} \cup StringsUpTo(SanitizeChars, MaxSanitizeLen)

\* The placeholders add supplies: isMandatory ? "NONE" : "unavl".
Placeholders == {NONE, unavl}

\* The strings normalizeDate is called on (upper-cased and trimmed by its
\* caller): the all-digit strings of at most MaxDateDigits digits, the empty
\* one included, and dates in the usual written forms.
DateInputs ==
  LET all == [i \in 1..MaxDateDigits |-> 48 + ((i * 7) % 10)]
  IN {SubSeq(all, 1, n) : n \in 0..MaxDateDigits}
     \cup {Str(<<"0", "1", "/", "1", "5", "/", "1", "9", "9", "0">>),
           Str(<<"1", "9", "9", "0", "-", "0", "1", "-", "1", "5">>),
           Str(<<"1", "/", "5", "/", "1", "9", "9", "0">>),
           Str(<<"0", "1", "-", "1", "5", "-", "9", "0">>),
           Str(<<"J", "A", "N", " ", "1", "5", ",", " ", "1", "9", "9", "0">>),
           Str(<<"A", "B", "C">>), Str(<<"N", "/", "A">>)}

\* What new Date(raw) can construct. Outside the ISO format the parse is left
\* to the implementation, and the fields are read in the local time zone, so
\* every outcome below is possible: an invalid Date, or a date of a 4-digit
\* year.
InvalidDate == [valid |-> FALSE, month |-> 0, date |-> 1, year |-> 1970]

DateOutcomes ==
  {InvalidDate}
  \cup [valid : {TRUE}, month : {0, 11}, date : {1, 31}, year : {1990, 2030}]

\* The values a scanned record holds for a tag, besides the one the encoder
\* wrote: for every tag the empty value, and for some a value of another
\* shape.
ScanValues(tag) ==
  {<<>>} \cup
  CASE tag = DAY -> {Str(<<"B", "L", "U">>), Str(<<"B", "R">>), Str(<<"b", "r", "o">>)}
    [] tag = DAU -> {Str(<<"1", "8", "0", " ", "C", "M">>), Str(<<"0", "7", "1", " ", "I", "N">>),
                     Str(<<"0", "7", "1", "I", "N">>), Str(<<"5", "1", "1", " ", "I", "N">>)}
    [] tag = DCS -> {Str(<<"O", "'", "N", "E", "I", "L", "-", "S", "M", "I", "T", "H">>),
                     Str(<<"S", "M", "I">>), Str(<<"J", "O", "N", "E", "S">>),
                     Str(<<"S", "M", "I", "T", "H", "3">>)}
    [] tag = DAD -> {Str(<<"Q", "U", "I", "N", "C", "Y">>)}
    [] tag = DBB -> {Str(<<"0", "1", "1", "5", "1", "9", "9">>),
                     Str(<<"1", "2", "3", "1", "1", "9", "8", "9">>)}
    [] tag = DAK -> {Str(<<"9", "0", "0", "0", "1", "-", "1", "2", "3", "4">>),
                     Str(<<"9", "0", "0", "0">>)}
    [] tag = DCG -> {Str(<<"C", "A", "N">>), Str(<<"M", "E", "X">>)}
    [] OTHER -> {}

\* The subfields of scanned records: those the encoder writes for Populated,
\* and the same with one tag's line removed, rewritten, or preceded by a
\* second line of that tag (put after the first subfield, which shares its
\* line with the subfile type).
ScanSubfields ==
  LET base == Subfields(Populated)
      without(t) == SelectSeq(base, LAMBDA l : ~startsWith(l, t))
      rewritten(t, v) == [i \in 1..Len(base) |->
                            IF startsWith(base[i], t) THEN t \o v ELSE base[i]]
      preceded(t, v) == <<base[1], t \o v>> \o Tail(base)
  IN {base}
     \cup {without(RuleTags[k]) : k \in 1..Len(RuleTags)}
     \cup UNION {{rewritten(RuleTags[k], v) : v \in ScanValues(RuleTags[k])} :
                   k \in 1..Len(RuleTags)}
     \cup UNION {{preceded(RuleTags[k], v) : v \in ScanValues(RuleTags[k])} :
                   k \in 1..Len(RuleTags)}

\* What precedes the subfile in a scanned record: the encoder's header and
\* designator, the same without the compliance indicator, the same with
\* another file type, and nothing.
ScanPrefixes ==
  LET designator == Str(<<"D", "L", "0", "0", "3", "1", "0", "2", "0", "0">>)
  IN {Header(Populated) \o designator,
      Tail(Header(Populated)) \o designator,
      Str(<<"@">>) \o <<LF, RS, CR>> \o Str(<<"A", "A", "M", "V", "A">>) \o designator,
      <<>>}

\* The raw strings the validator is called on: the scanned records, the
\* empty string, and strings without a separator.
ScanRecords ==
  {pre \o FullSubfile(Str(<<"D", "L">>), fields) :
     pre \in ScanPrefixes, fields \in ScanSubfields}
  \cup {<<>>, Str(<<"@", "A", "N", "S", "I", " ">>),
        Str(<<"D", "A", "Y", "B", "R", "O">>)}

\* The expected FieldSets of those calls.
ScanExpected ==
  {Populated, <<>>,
   With(Populated, DAY, Str(<<"B", "R", "O", "W", "N">>)),
   With(Populated, DAY, Str(<<"G", "R", "N">>)),
   With(Populated, DAU, Str(<<"a", "b", "c">>)),
   With(Populated, DCS, Str(<<"o", "'", "n", "e", "i", "l", " ", "s", "m", "i", "t", "h">>)),
   With(Populated, DCS, Str(<<"-">>))}

\* The values a rule is tested on alone: every string of at most MaxRuleLen
\* of the characters below (a letter of either case, a digit, a space, a tab,
\* a hyphen and an apostrophe), runs of letters and of digits at the lengths
\* where the rules change, and the country codes.
MaxRuleLen == 3

RuleChars == {Ord("A"), Ord("b"), Ord("1"), Ord(" "), 9, Ord("-"), Ord("'")}

RuleInputs ==
  StringsUpTo(RuleChars, MaxRuleLen)
  \cup {Repeat(Ord("A"), n) : n \in {8, 11, 12, 25, 26, 40, 41}}
  \cup {Repeat(Ord("1"), n) : n \in {5, 7, 8, 9}}
  \cup {Str(<<"U", "S", "A">>), Str(<<"C", "A", "N">>), Str(<<"M", "E", "X">>),
        Str(<<"B", "R", "O">>), Str(<<"0", "1", "1", "5", "1", "9", "9", "0">>),
        Str(<<"0", "7", "1", " ", "I", "N">>), Str(<<"1", "8", "0", " ", "C", "M">>)}

\* The objects the service answers with: some of the last name, the birth
\* date and the state, each with one of a few values.
ResponseValues(tag) ==
  CASE tag = DCS -> {Str(<<"S", "m", "i", "t", "h">>), Str(<<" ", "d", "o", "e", " ">>), <<>>}
    [] tag = DBB -> {Str(<<"0", "1", "/", "1", "5", "/", "1", "9", "9", "0">>),
                     Str(<<"0", "1", "1", "5", "1", "9", "9", "0">>)}
    [] tag = DAJ -> {Str(<<"c", "a">>), Str(<<"T", "X">>), Str(<<"Z", "Z">>)}

ResponseObjects ==
  { (IF a = Undefined THEN <<>> ELSE << <<DCS, a>> >>)
    \o (IF b = Undefined THEN <<>> ELSE << <<DBB, b>> >>)
    \o (IF c = Undefined THEN <<>> ELSE << <<DAJ, c>> >>) :
      a \in ResponseValues(DCS) \cup {Undefined},
      b \in ResponseValues(DBB) \cup {Undefined},
      c \in ResponseValues(DAJ) \cup {Undefined} }

\* JSON.stringify of such an object.
RECURSIVE stringifyMembers(_)
stringifyMembers(object) ==
  IF object = <<>> THEN <<>>
  ELSE <<Quote>> \o object[1][1] \o <<Quote, Ord(":"), Quote>> \o object[1][2] \o <<Quote>>
       \o (IF Len(object) > 1 THEN Str(<<",">>) ELSE <<>>)
       \o stringifyMembers(Tail(object))

stringify(object) == Str(<<"{">>) \o stringifyMembers(object) \o Str(<<"}">>)

\* The texts of a response: the objects above, the same cut short by one
\* character, no text, the empty text, null and a refusal in plain words.
ResponseTexts ==
  {stringify(o) : o \in ResponseObjects}
  \cup {SubSeq(stringify(o), 1, Len(stringify(o)) - 1) : o \in ResponseObjects}
  \cup {Undefined, <<>>, Str(<<"n", "u", "l", "l">>), Str(<<"S", "o", "r", "r", "y">>)}

\* The FieldSets and the records of the calls made one after another.
CallFieldSets ==
  {AppInitial, Populated, Sparse,
   With(Populated, DAY, Str(<<"B", "R">>)),
   With(Populated, DCS, Str(<<"o", "'", "n", "e", "i", "l">>)),
   With(Populated, DAD, <<>>)}

CallRecords ==
  {generateAAMVAString(data) : data \in CallFieldSets}
  \cup {<<>>, Str(<<"D", "A", "Y", "B", "R", "O">>)}

\* What the user of the App chooses and types, and what comes back for a
\* scan: the files (an image, a file that is no image, a file that cannot be
\* read), the fields typed into with the value typed, and the texts of the
\* service's response: two objects, the empty text and a refusal.
Files == {"image", "not an image", "unreadable"}

Typed == {<<DCS, Str(<<"S", "m", "i", "t", "h">>)>>, <<DAJ, Str(<<"n", "v">>)>>}

AppResponses ==
  {stringify(<< <<DCS, Str(<<"D", "o", "e">>)>>, <<DAJ, Str(<<"t", "x">>)>> >>),
   stringify(<< <<DCS, Str(<<"D", "o", "e">>)>> >>),
   <<>>,
   Str(<<"S", "o", "r", "r", "y">>)}

-----------------------------------------------------------------------------
(* The calls *)

\* No sanitize call and no normalizeDate call has been made.
NoSanitize == sanitizeIn = <<>> /\ placeholderIn = <<>> /\ sanitizeOut = <<>>
NoDate == dateIn = <<>> /\ date = <<>> /\ dateOut = <<>>
\* No rule has been tested alone, no regular expression has been used, no
\* scan response has been handled and the App is as it is mounted.
NoRule == ruleTag = <<>> /\ ruleValue = <<>> /\ ruleOk = FALSE
NoUse == lastIndex = [k \in 1..Len(RuleTags) |-> 0]
NoOcr == responseText = <<>> /\ scanOut = <<>>
NoApp ==
  /\ step = "SELECT"
  /\ selectedJurisdiction = 0
  /\ isScanning = FALSE
  /\ scanPc = "none"
  /\ file = "none"
  /\ updates = <<>>
  /\ touched = {}
NoOther == NoRule /\ NoUse /\ NoOcr /\ NoApp

NoReport ==
  [isHeaderValid |-> FALSE, rawString |-> <<>>, fields |-> <<>>, overallScore |-> 0]

Init ==
  /\ pc = "start"
  /\ formData \in FieldSets
  /\ expected = <<>>
  /\ subfields = <<>>
  /\ raw = <<>>
  /\ report = NoReport
  /\ heightIn = <<>>
  /\ heightOut = <<>>
  /\ NoSanitize /\ NoDate /\ NoOther

\* const currentAAMVAString = generateAAMVAString(formData)
Generate ==
  /\ pc = "start"
  /\ subfields' = Subfields(formData)
  /\ raw' = generateAAMVAString(formData)
  /\ pc' = IF raw' = TypeError THEN "threw" ELSE "generated"
  /\ UNCHANGED <<formData, expected, report, heightIn, heightOut, sanitizeVars, dateVars,
                 otherVars>>

\* const validation = validateAAMVAStructure(currentAAMVAString, expected)
Validate ==
  /\ pc = "generated"
  /\ \E e \in ExpectedChoices(formData) :
       /\ expected' = e
       /\ report' = validateAAMVAStructure(raw, e)
  /\ pc' = "validated"
  /\ UNCHANGED <<formData, subfields, raw, heightIn, heightOut, sanitizeVars, dateVars,
                 otherVars>>

Next == Generate \/ Validate

Spec == Init /\ [][Next]_vars

\* The same calls, made on the FieldSets with the over-long street address.
InitLong ==
  /\ pc = "start"
  /\ formData \in LongFieldSets(LongLen)
  /\ expected = <<>>
  /\ subfields = <<>>
  /\ raw = <<>>
  /\ report = NoReport
  /\ heightIn = <<>>
  /\ heightOut = <<>>
  /\ NoSanitize /\ NoDate /\ NoOther

SpecLong == InitLong /\ [][Next]_vars

InitHeight ==
  /\ pc = "start"
  /\ formData = <<>>
  /\ expected = <<>>
  /\ subfields = <<>>
  /\ raw = <<>>
  /\ report = NoReport
  /\ heightIn \in HeightInputs
  /\ heightOut = <<>>
  /\ NoSanitize /\ NoDate /\ NoOther

\* formatHeight(heightIn)
FormatHeight ==
  /\ pc = "start"
  /\ heightOut' = formatHeight(heightIn)
  /\ pc' = "formatted"
  /\ UNCHANGED <<formData, expected, subfields, raw, report, heightIn, sanitizeVars, dateVars,
                 otherVars>>

NextHeight == FormatHeight

SpecHeight == InitHeight /\ [][NextHeight]_vars

\* The validator called on a scanned record.
InitScan ==
  /\ pc = "scanned"
  /\ formData = <<>>
  /\ expected \in ScanExpected
  /\ subfields = <<>>
  /\ raw \in ScanRecords
  /\ report = NoReport
  /\ heightIn = <<>>
  /\ heightOut = <<>>
  /\ NoSanitize /\ NoDate /\ NoOther

\* validateAAMVAStructure(raw, expected)
ValidateScan ==
  /\ pc = "scanned"
  /\ report' = validateAAMVAStructure(raw, expected)
  /\ pc' = "validated"
  /\ UNCHANGED <<formData, expected, subfields, raw, heightIn, heightOut,
                 sanitizeVars, dateVars, otherVars>>

NextScan == ValidateScan

SpecScan == InitScan /\ [][NextScan]_vars

InitSanitize ==
  /\ pc = "start"
  /\ formData = <<>>
  /\ expected = <<>>
  /\ subfields = <<>>
  /\ raw = <<>>
  /\ report = NoReport
  /\ heightIn = <<>>
  /\ heightOut = <<>>
  /\ sanitizeIn \in SanitizeInputs
  /\ placeholderIn \in Placeholders
  /\ sanitizeOut = <<>>
  /\ NoDate /\ NoOther

\* cleanVal = sanitize(val, isMandatory ? "NONE" : "unavl")
Sanitize ==
  /\ pc = "start"
  /\ sanitizeOut' = sanitize(sanitizeIn, placeholderIn)
  /\ pc' = "sanitized"
  /\ UNCHANGED <<formData, expected, subfields, raw, report, heightIn, heightOut,
                 sanitizeIn, placeholderIn, dateVars, otherVars>>

NextSanitize == Sanitize

SpecSanitize == InitSanitize /\ [][NextSanitize]_vars

InitDate ==
  /\ pc = "start"
  /\ formData = <<>>
  /\ expected = <<>>
  /\ subfields = <<>>
  /\ raw = <<>>
  /\ report = NoReport
  /\ heightIn = <<>>
  /\ heightOut = <<>>
  /\ NoSanitize /\ NoOther
  /\ dateIn \in DateInputs
  /\ date = <<>>
  /\ dateOut = <<>>

\* val = normalizeDate(val)
NormalizeDate ==
  /\ pc = "start"
  /\ \E parsed \in DateOutcomes :
       /\ date' = parsed
       /\ dateOut' = normalizeDate(dateIn, parsed)
  /\ pc' = "normalized"
  /\ UNCHANGED <<formData, expected, subfields, raw, report, heightIn, heightOut,
                 sanitizeVars, dateIn, otherVars>>

NextDate == NormalizeDate

SpecDate == InitDate /\ [][NextDate]_vars

\* One rule of the table tested on one value.
InitRule ==
  /\ pc = "start"
  /\ formData = <<>>
  /\ expected = <<>>
  /\ subfields = <<>>
  /\ raw = <<>>
  /\ report = NoReport
  /\ heightIn = <<>>
  /\ heightOut = <<>>
  /\ NoSanitize /\ NoDate /\ NoUse /\ NoOcr /\ NoApp
  /\ ruleTag \in {RuleTags[k] : k \in 1..Len(RuleTags)}
  /\ ruleValue \in RuleInputs
  /\ ruleOk = FALSE

\* rule.regex.test(value)
TestRule ==
  /\ pc = "start"
  /\ ruleOk' = RuleTest(ruleTag, ruleValue)
  /\ pc' = "tested"
  /\ UNCHANGED <<formData, expected, subfields, raw, report, heightIn, heightOut,
                 sanitizeVars, dateVars, ruleTag, ruleValue, lastIndex, ocrVars,
                 appVars>>

NextRule == TestRule

SpecRule == InitRule /\ [][NextRule]_vars

\* The encoder and the validator called again and again, in any order, by
\* a caller that holds one FieldSet.
InitCalls ==
  /\ pc = "no call"
  /\ formData \in CallFieldSets
  /\ expected = <<>>
  /\ subfields = <<>>
  /\ raw = <<>>
  /\ report = NoReport
  /\ heightIn = <<>>
  /\ heightOut = <<>>
  /\ NoSanitize /\ NoDate /\ NoOther

\* generateAAMVAString(formData)
CallGenerate ==
  /\ pc \in {"no call", "one call", "calls"}
  /\ subfields' = Subfields(formData)
  /\ raw' = generateAAMVAString(formData)
  /\ pc' = IF pc = "no call" THEN "one call" ELSE "calls"
  /\ UNCHANGED <<formData, expected, report, heightIn, heightOut, sanitizeVars, dateVars,
                 otherVars>>

\* validateAAMVAStructure(record, formData), on the record generated last or
\* on another one.
CallValidate ==
  /\ pc \in {"no call", "one call", "calls"}
  /\ \E record \in CallRecords \cup {raw} :
       LET call == validateWith(lastIndex, record, formData)
       IN /\ expected' = formData
          /\ report' = call.report
          /\ lastIndex' = call.lastIndex
  /\ pc' = IF pc = "no call" THEN "one call" ELSE "calls"
  /\ UNCHANGED <<formData, subfields, raw, heightIn, heightOut, sanitizeVars, dateVars,
                 ruleVars, ocrVars, appVars>>

NextCalls == CallGenerate \/ CallValidate

SpecCalls == InitCalls /\ [][NextCalls]_vars

\* The App from the moment it is mounted.
InitApp ==
  /\ pc = "mounted"
  /\ formData = AppInitial
  /\ expected = <<>>
  /\ subfields = <<>>
  /\ raw = <<>>
  /\ report = NoReport
  /\ heightIn = <<>>
  /\ heightOut = <<>>
  /\ NoSanitize /\ NoDate /\ NoOther

\* What the user has done since the pending scan started: the fields typed
\* into or set, by their tags, and the screen and the jurisdiction chosen.
theStep == Str(<<"s", "t", "e", "p">>)
theJurisdiction == Str(<<"j", "u", "r", "i", "s", "d", "i", "c", "t", "i", "o", "n">>)

Touch(what) == IF scanPc = "none" THEN touched ELSE touched \cup what

\* handleSelectJurisdiction(j), from the list of the SELECT screen
SelectJurisdiction ==
  /\ step = "SELECT"
  /\ \E j \in 1..Len(JURISDICTIONS) :
       /\ selectedJurisdiction' = j
       /\ formData' = Selected(formData, j)
  /\ step' = "FORM"
  /\ touched' = Touch({theStep, theJurisdiction, DAJ, IIN, JurisdictionVersion, DCG})
  /\ UNCHANGED <<pc, expected, subfields, raw, report, heightIn, heightOut, sanitizeVars,
                 dateVars, ruleVars, lastIndex, ocrVars, isScanning, scanPc, file, updates>>

\* onChange of an input of the FORM screen
EditField ==
  /\ step = "FORM"
  /\ \E typed \in Typed :
       /\ formData' = With(formData, typed[1], toUpperCase(typed[2]))
       /\ touched' = Touch({typed[1]})
  /\ UNCHANGED <<pc, expected, subfields, raw, report, heightIn, heightOut, sanitizeVars,
                 dateVars, ruleVars, lastIndex, ocrVars, step, selectedJurisdiction,
                 isScanning, scanPc, file, updates>>

\* The buttons that change the screen: back to SELECT, on to RESULT, back to
\* FORM.
Navigate ==
  /\ \/ step # "SELECT" /\ step' = "SELECT"
     \/ step = "FORM" /\ step' = "RESULT"
     \/ step = "RESULT" /\ step' = "FORM"
  /\ touched' = Touch({theStep})
  /\ UNCHANGED <<pc, formData, expected, subfields, raw, report, heightIn, heightOut,
                 sanitizeVars, dateVars, ruleVars, lastIndex, ocrVars,
                 selectedJurisdiction, isScanning, scanPc, file, updates>>

\* A click on the scan card of the SELECT screen, which opens the file
\* dialog unless a scan is running, and handleImageScan up to its first
\* await.
StartScan ==
  /\ step = "SELECT"
  /\ ~isScanning
  /\ file' \in Files
  /\ isScanning' = TRUE
  /\ scanPc' = "reading"
  /\ touched' = {}
  /\ UNCHANGED <<pc, formData, expected, subfields, raw, report, heightIn, heightOut,
                 sanitizeVars, dateVars, ruleVars, lastIndex, ocrVars, step,
                 selectedJurisdiction, updates>>

\* preprocessImage: reader.onload, which hands the data to an Image. A file
\* that cannot be read raises the reader's error event, which has no
\* handler: the promise is never settled.
ReaderDone ==
  /\ scanPc = "reading"
  /\ scanPc' = IF file = "unreadable" THEN "abandoned" ELSE "decoding"
  /\ UNCHANGED <<pc, formData, expected, subfields, raw, report, heightIn, heightOut,
                 sanitizeVars, dateVars, ruleVars, lastIndex, ocrVars, step,
                 selectedJurisdiction, isScanning, file, updates, touched>>

\* preprocessImage: img.onload, which resolves the promise. Data that are no
\* image raise the image's error event, which has no handler: the promise
\* is never settled.
ImageDone ==
  /\ scanPc = "decoding"
  /\ scanPc' = IF file = "image" THEN "extracting" ELSE "abandoned"
  /\ UNCHANGED <<pc, formData, expected, subfields, raw, report, heightIn, heightOut,
                 sanitizeVars, dateVars, ruleVars, lastIndex, ocrVars, step,
                 selectedJurisdiction, isScanning, file, updates, touched>>

\* The service has answered and scanDLWithGemini has returned a mapping:
\* the rest of the try block of handleImageScan, and its finally block.
ScanSucceeds ==
  /\ scanPc = "extracting"
  /\ \E text \in AppResponses :
       LET result == scanResult(text)
           detectedJur == IF Falsy(Get(result.cleaned, DAJ)) THEN 0
                          ELSE detectJurisdictionFromCode(Get(result.cleaned, DAJ))
       IN /\ ~result.threw
          /\ updates' = result.cleaned
          /\ selectedJurisdiction' =
               IF detectedJur # 0 THEN detectedJur ELSE selectedJurisdiction
          /\ formData' = Scanned(formData, result.cleaned)
  /\ step' = "FORM"
  /\ isScanning' = FALSE
  /\ scanPc' = "none"
  /\ UNCHANGED <<pc, expected, subfields, raw, report, heightIn, heightOut, sanitizeVars,
                 dateVars, ruleVars, lastIndex, ocrVars, file, touched>>

\* The service has failed, or scanDLWithGemini has thrown on its answer: the
\* catch block of handleImageScan, and its finally block.
ScanFails ==
  /\ scanPc = "extracting"
  /\ isScanning' = FALSE
  /\ scanPc' = "none"
  /\ UNCHANGED <<pc, formData, expected, subfields, raw, report, heightIn, heightOut,
                 sanitizeVars, dateVars, ruleVars, lastIndex, ocrVars, step,
                 selectedJurisdiction, file, updates, touched>>

\* The steps the browser and the service take for a pending scan.
ScanStep == ReaderDone \/ ImageDone \/ ScanSucceeds \/ ScanFails

NextApp == SelectJurisdiction \/ EditField \/ Navigate \/ StartScan \/ ScanStep

SpecApp == InitApp /\ [][NextApp]_vars

\* The same, where an event that is due is delivered and the service answers
\* or fails.
SpecAppFair == SpecApp /\ WF_vars(ScanStep)

\* scanDLWithGemini from the moment the service has answered.
InitOcr ==
  /\ pc = "answered"
  /\ formData = <<>>
  /\ expected = <<>>
  /\ subfields = <<>>
  /\ raw = <<>>
  /\ report = NoReport
  /\ heightIn = <<>>
  /\ heightOut = <<>>
  /\ NoSanitize /\ NoDate /\ NoRule /\ NoUse /\ NoApp
  /\ responseText \in ResponseTexts
  /\ scanOut = <<>>

\* try { ... return cleaned } catch (e) { throw new Error("Parse error") }
Extract ==
  /\ pc = "answered"
  /\ scanOut' = scanResult(responseText)
  /\ pc' = IF scanOut'.threw THEN "rejected" ELSE "extracted"
  /\ UNCHANGED <<formData, expected, subfields, raw, report, heightIn, heightOut,
                 sanitizeVars, dateVars, ruleVars, lastIndex, responseText, appVars>>

NextOcr == Extract

SpecOcr == InitOcr /\ [][NextOcr]_vars

-----------------------------------------------------------------------------
(* Properties of the encoder and the validator *)

MandatoryTags ==
  <<DCA, DCB, DCD, DBA, DCS, DAC, DAD, DBD, DBB, DBC, DAY, DAU,
    DAG, DAI, DAJ, DAK, DAQ, DCF, DCG>>
OptionalTags == <<DCU, DDA, DDK, DAW, DAZ>>
FixedOrder == MandatoryTags \o OptionalTags \o <<DDE, DDF, DDG>>

Range(f) == {f[i] : i \in 1..Len(f)}

MandatoryPopulated(data) == \A t \in Range(MandatoryTags) : ~Falsy(Get(data, t))

AllPrintable(v) == \A i \in 1..Len(v) : IsPrintable(v[i])
NoSeparator(v) == \A i \in 1..Len(v) : v[i] \notin {LF, RS, CR}

\* The value the encoder writes for a mandatory tag whose input is v.
Normalized(tag, v) == IF tag = DAU THEN formatHeight(v) ELSE sanitize(v, NONE)

\* Every mandatory tag is populated, the weight is not absent, every
\* Rule-Table tag holds printable ASCII whose normalized value its rule
\* accepts, the subfile type is DL or ID (or absent), and the issuer id and
\* the jurisdiction version hold no separator character.
RoundTripInput(data) ==
  /\ MandatoryPopulated(data)
  /\ Get(data, DAW) # Undefined
  /\ SubfileTypeOf(data) \in {Str(<<"D", "L">>), Str(<<"I", "D">>)}
  /\ \A t \in Range(RuleTags) :
       AllPrintable(Get(data, t)) /\ RuleTest(t, Normalized(t, Get(data, t)))
  /\ NoSeparator(Or(Get(data, IIN), <<>>))
  /\ NoSeparator(Or(Get(data, JurisdictionVersion), <<>>))

IsSubfield(sf) == \E i \in 1..Len(subfields) : subfields[i] = sf
HasTag(tag) == \E i \in 1..Len(subfields) : startsWith(subfields[i], tag)

C2_HeaderValid == pc = "validated" => (report.rawString = raw /\ report.isHeaderValid)

C2_Witness ==
  /\ pc = "validated" /\ expected # formData
  /\ Get(formData, IIN) = Undefined
  /\ report.isHeaderValid

\* C3 as stated: the designator's length field (0-based indexes 27..30) is 4
\* decimal digits whose value is the number of characters after the designator.
C3_LengthField ==
  pc = "generated" =>
    LET field == SubSeq(raw, 28, 31)
    IN /\ \A i \in 1..4 : IsDigit(field[i])
       /\ DigitsValue(field) = Len(raw) - 31

\* C4 as stated: the 4 characters at 0-based indexes 23..26 read as decimal
\* 31 and the subfile begins at 0-based index 31.
C4_OffsetField ==
  pc = "generated" =>
    LET field == SubSeq(raw, 24, 27)
    IN /\ \A i \in 1..4 : IsDigit(field[i])
       /\ DigitsValue(field) = 31
       /\ SubSeq(raw, 32, Len(raw)) = FullSubfile(SubfileTypeOf(formData), subfields)

\* C5 as stated: the header is exactly 21 characters for any issuer id and any
\* jurisdiction version: 6 characters of issuer id, the version "10", 2 digits
\* of jurisdiction version, the entry count "01", and then the designator.
C5_Header21 ==
  pc = "generated" =>
    /\ SubSeq(raw, 16, 17) = Str(<<"1", "0">>)
    /\ SubSeq(raw, 20, 21) = Str(<<"0", "1">>)
    /\ SubSeq(raw, 22, 27) = SubfileTypeOf(formData) \o Str(<<"0", "0", "3", "1">>)

TagIndex(tag) == CHOOSE i \in 1..Len(FixedOrder) : FixedOrder[i] = tag
TagOf(sf) == SubSeq(sf, 1, 3)

\* C6: a FieldSet and the same FieldSet with its keys inserted in another order
\* encode to the same record (or both fail), and the record ends with the
\* subfields in the fixed order DCA .. DCG, DCU DDA DDK DAW DAZ, DDE DDF DDG.
C6_OrderIndependent ==
  /\ pc \in {"generated", "threw"} => raw = generateAAMVAString(Reversed(formData))
  /\ pc = "generated" =>
       /\ endsWith(raw, join(subfields, LF) \o <<CR>>)
       /\ \A i \in 1..Len(subfields) : TagOf(subfields[i]) \in Range(FixedOrder)
       /\ \A i \in 1..Len(subfields) : \A j \in (i + 1)..Len(subfields) :
            TagIndex(TagOf(subfields[i])) < TagIndex(TagOf(subfields[j]))

C6_Witness ==
  /\ pc = "generated"
  /\ Reversed(formData) # formData
  /\ Len(subfields) = Len(FixedOrder)

\* An input value the encoder has nothing to normalize in: non-empty, printable
\* ASCII without lower-case letters and without a space at either end.
Canonical(v) ==
  /\ ~Falsy(v)
  /\ \A i \in 1..Len(v) : IsPrintable(v[i]) /\ ~IsLower(v[i])
  /\ v[1] # Ord(" ") /\ v[Len(v)] # Ord(" ")

\* The record ends with the subfile: its type, the subfields joined by single
\* line-feeds, and one carriage-return, the only one of the subfile.
SubfileLayout ==
  LET body == join(subfields, LF) \o <<CR>>
  IN /\ endsWith(raw, SubfileTypeOf(formData) \o body)
     /\ \A i \in 1..Len(subfields) : \A k \in 1..Len(subfields[i]) :
          subfields[i][k] \notin {LF, CR}
     /\ \A k \in 1..Len(SubfileTypeOf(formData)) :
          SubfileTypeOf(formData)[k] \notin {LF, CR}

DefaultOf(tag) ==
  CASE tag = DCA -> Str(<<"C">>)
    [] tag = DCG -> Str(<<"U", "S", "A">>)
    [] tag = DAU -> unavl
    [] OTHER -> NONE

C9_OptionalOmitted ==
  pc = "generated" =>
    \A t \in Range(OptionalTags) : HasTag(t) => ~Falsy(Get(formData, t))

\* C10 as stated: a height of feet F and inches I separated by a hyphen, an
\* apostrophe or both gives F*12+I as 3 zero-padded digits followed by " IN",
\* and a height without such a separator is stripped to its digits.
C10_FeetInches ==
  pc = "formatted" =>
    /\ \A f \in 0..9, i \in 0..11 :
         \A sep \in {Str(<<"-">>), Str(<<"'">>), Str(<<"'", "-">>)}, q \in {<<>>, Str(<<"\"">>)} :
           heightIn = toString(f) \o sep \o toString(i) \o q
             => heightOut = padStart(toString((f * 12) + i), 3, Ord("0")) \o Str(<<" ", "I", "N">>)
    /\ ((\A k \in 1..Len(heightIn) : heightIn[k] \notin {Ord("'"), Ord("-")})
        /\ SelectSeq(heightIn, IsDigit) # <<>>)
         => heightOut = padStart(SelectSeq(heightIn, IsDigit), 3, Ord("0")) \o Str(<<" ", "I", "N">>)

\* C11 as stated: formatHeight returns unavl exactly when its input holds no
\* digit, and otherwise three digits, one space and IN, 6 characters in all.
C11_Shape ==
  pc = "formatted" =>
    LET hasDigit == \E k \in 1..Len(heightIn) : IsDigit(heightIn[k])
    IN /\ (heightOut = unavl) <=> ~hasDigit
       /\ hasDigit =>
            /\ Len(heightOut) = 6
            /\ \A k \in 1..3 : IsDigit(heightOut[k])
            /\ SubSeq(heightOut, 4, 6) = Str(<<" ", "I", "N">>)

\* C12 as stated: formatHeight applied to its own result returns that result.
C12_Idempotent ==
  pc = "formatted" => formatHeight(heightOut) = heightOut

\* The printable characters of the argument, upper-cased.
Kept ==
  toUpperCase(SelectSeq(IF sanitizeIn = Undefined THEN <<>> ELSE sanitizeIn, IsPrintable))

\* C13: sanitize returns its argument upper-cased, without the characters
\* outside 0x20..0x7E and without the spaces at either end, and the supplied
\* placeholder when nothing is left; its result is never empty and holds no
\* line-feed, record-separator or carriage-return.
C13_Sanitize ==
  pc = "sanitized" =>
    /\ sanitizeOut # <<>>
    /\ \A k \in 1..Len(sanitizeOut) : sanitizeOut[k] \notin {LF, RS, CR}
    /\ IF \A k \in 1..Len(Kept) : Kept[k] = Ord(" ")
       THEN sanitizeOut = placeholderIn
       ELSE /\ sanitizeOut[1] # Ord(" ") /\ sanitizeOut[Len(sanitizeOut)] # Ord(" ")
            /\ \E lead \in 0..Len(Kept) : \E trail \in 0..(Len(Kept) - lead) :
                 Kept = Repeat(Ord(" "), lead) \o sanitizeOut \o Repeat(Ord(" "), trail)

C13_Witness ==
  /\ pc = "sanitized"
  /\ sanitizeIn = <<Ord(" "), Ord("a"), LF>>
  /\ sanitizeOut = Str(<<"A">>)

\* C14 as stated: normalizeDate returns a string of exactly 8 characters for
\* every input, and the 8 digits of an input that holds exactly 8 digits.
C14_EightChars ==
  pc = "normalized" =>
    /\ Len(dateOut) = 8
    /\ Len(SelectSeq(dateIn, IsDigit)) = 8 => dateOut = SelectSeq(dateIn, IsDigit)

\* The number of FieldResults of the report with the status MATCH.
Matches == Cardinality({k \in 1..Len(report.fields) : report.fields[k].status = "MATCH"})

\* The raw string fails the header validation: it does not start with '@', or
\* it does not hold the file type "ANSI ".
HeaderFails ==
  \/ raw = <<>> \/ raw[1] # Ord("@")
  \/ ~\E i \in 1..(Len(raw) - 4) : SubSeq(raw, i, i + 4) = Str(<<"A", "N", "S", "I", " ">>)

\* C15: whenever the header validation fails the report has isHeaderValid =
\* false and overallScore = 0, however many statuses are MATCH; and a score
\* above 0 implies a valid header.
C15_HeaderForcesZero ==
  pc = "validated" =>
    /\ HeaderFails => (~report.isHeaderValid /\ report.overallScore = 0)
    /\ report.overallScore > 0 => (report.isHeaderValid /\ ~HeaderFails)

C15_Witness ==
  /\ pc = "validated"
  /\ raw # <<>> /\ raw[1] # Ord("@")
  /\ Matches = Len(RuleTags)
  /\ report.overallScore = 0 /\ ~report.isHeaderValid

\* round(100 * m / n): the integer nearest to the quotient.
Rounded(m, n) == CHOOSE k \in 0..100 : (2 * ((n * k) - (100 * m)) <= n) /\ (2 * ((100 * m) - (n * k)) < n)

\* C16: with a valid header overallScore is round(100 * m / n), m the number
\* of MATCH statuses and n = 15 the number of Rule-Table tags; it is always an
\* integer of 0..100, and it is 100 exactly when the header is valid and every
\* status is MATCH.
C16_Score ==
  pc = "validated" =>
    /\ Len(report.fields) = 15
    /\ report.isHeaderValid => report.overallScore = Rounded(Matches, 15)
    /\ report.overallScore \in 0..100
    /\ report.overallScore = 100 <=> (report.isHeaderValid /\ Matches = 15)

C16_Witness ==
  /\ pc = "validated"
  /\ report.isHeaderValid
  /\ Matches = 13
  /\ report.overallScore = 87

\* Of the separator-delimited lines of a raw string, those whose first 3
\* characters are the tag, by their position.
LinesOf(lines, tag) ==
  {i \in 1..Len(lines) : Len(lines[i]) >= 3 /\ SubSeq(lines[i], 1, 3) = tag}
FirstLineOf(lines, tag) ==
  CHOOSE i \in LinesOf(lines, tag) : \A j \in LinesOf(lines, tag) : i <= j
\* The characters after the tag in its first line.
ScannedOf(lines, tag) ==
  LET line == lines[FirstLineOf(lines, tag)] IN SubSeq(line, 4, Len(line))

\* C17: for every Rule-Table tag the status is decided from the first line
\* whose first 3 characters are the tag: without such a line it is
\* MISSING_IN_SCAN, or MATCH when the tag's rule accepts the empty value; with
\* such a line whose value fails the rule it is FORMAT_ERROR, whatever the
\* expected value.
C17_FirstLine ==
  pc = "validated" =>
    LET lines == Lines(raw)
    IN \A k \in 1..Len(RuleTags) :
         LET tag == RuleTags[k]
             status == report.fields[k].status
         IN /\ report.fields[k].elementId = tag
            /\ IF LinesOf(lines, tag) = {}
               THEN status = (IF RuleTest(tag, <<>>) THEN "MATCH" ELSE "MISSING_IN_SCAN")
               ELSE LET scanned == ScannedOf(lines, tag)
                    IN /\ ~RuleTest(tag, scanned) => status = "FORMAT_ERROR"
                       /\ RuleTest(tag, scanned) => status \in {"MATCH", "MISMATCH"}

C17_Witness ==
  /\ pc = "validated"
  /\ expected = Populated
  /\ LET lines == Lines(raw)
     IN /\ Cardinality(LinesOf(lines, DAY)) = 2
        /\ ScannedOf(lines, DAY) = Str(<<"B", "R">>)
        /\ LinesOf(lines, DAQ) # {}
  /\ report.fields[9].status = "FORMAT_ERROR"
  /\ report.fields[1].status = "MATCH"

\* A value with its white space, hyphens and apostrophes removed, upper-cased.
Normal(v) ==
  SelectSeq(toUpperCase(v), LAMBDA c : c \notin {9, 10, 11, 12, 13, 32, Ord("-"), Ord("'")})
\* The normalized scanned value holds the first 3 characters of the normalized
\* expected value.
HoldsPrefix(scanned, form) ==
  LET n == Normal(form)
      h == Normal(scanned)
      prefix == SubSeq(n, 1, IF Len(n) < 3 THEN Len(n) ELSE 3)
  IN \E i \in 0..(Len(h) - Len(prefix)) : SubSeq(h, i + 1, i + Len(prefix)) = prefix

\* C18: for a tag other than DAU whose line is found and whose value passes
\* the rule, a non-empty expected value gives MISMATCH exactly when the
\* normalized scanned value does not hold the first 3 characters of the
\* normalized expected value and MATCH otherwise; no expected value gives
\* MATCH.
C18_Compare ==
  pc = "validated" =>
    LET lines == Lines(raw)
    IN \A k \in 1..Len(RuleTags) :
         LET tag == RuleTags[k]
             status == report.fields[k].status
             form == Get(expected, tag)
         IN (tag # DAU /\ LinesOf(lines, tag) # {}) =>
              LET scanned == ScannedOf(lines, tag)
              IN RuleTest(tag, scanned) =>
                   IF Falsy(form) THEN status = "MATCH"
                   ELSE /\ status = "MISMATCH" <=> ~HoldsPrefix(scanned, form)
                        /\ status \in {"MATCH", "MISMATCH"}

C18_Witness ==
  /\ pc = "validated"
  /\ LET lines == Lines(raw)
     IN LinesOf(lines, DAY) # {} /\ ScannedOf(lines, DAY) = Str(<<"B", "R", "O">>)
  /\ Get(expected, DAY) = Str(<<"B", "R", "O", "W", "N">>)
  /\ report.fields[9].status = "MATCH"

\* C19 as stated: for DAU with a scanned value that passes the height rule,
\* an expected value that holds a digit gives MATCH without the comparison,
\* and an expected value without a digit is compared as for any other tag.
C19_HeightExempt ==
  pc = "validated" =>
    LET lines == Lines(raw)
        status == report.fields[10].status
        form == Get(expected, DAU)
    IN (LinesOf(lines, DAU) # {} /\ ~Falsy(form)) =>
         LET scanned == ScannedOf(lines, DAU)
         IN RuleTest(DAU, scanned) =>
              IF \E i \in 1..Len(form) : IsDigit(form[i])
              THEN status = "MATCH"
              ELSE status = "MISMATCH" <=> ~HoldsPrefix(scanned, form)

\* C20 as stated: encoding a FieldSet whose last name DCS is empty gives the
\* subfield DCSNONE, and validating that record against the same FieldSet
\* reports DCS with the status MATCH.
C20_MissingPolicy ==
  (pc # "start" /\ Falsy(Get(formData, DCS))) =>
    /\ IsSubfield(DCS \o NONE)
    /\ (pc = "validated" /\ expected = formData) => report.fields[2].status = "MATCH"

-----------------------------------------------------------------------------
(* The validator's report *)

\* The four statuses of a ValidationField.
Statuses == {"MATCH", "MISMATCH", "MISSING_IN_SCAN", "FORMAT_ERROR"}

\* The tags of AAMVA_RULES as the table lists them, top to bottom.
TableOrder ==
  <<DAQ, DCS, DAC, DAD, DBB, DBA, DBD, DBC, DAY, DAU, DAG, DAI, DAJ, DAK, DCG>>

\* C21: the validator answers every raw string, the empty one, one without a
\* separator and one with repeated or missing lines included, with a
\* report: its rawString is the string passed in, and
\* fields holds one result for each tag of the rule table, in the table's
\* order, each with one of the four statuses.
C21_Total ==
  pc = "validated" =>
       /\ report.rawString = raw
       /\ Len(report.fields) = Len(TableOrder)
       /\ \A k \in 1..Len(TableOrder) :
            /\ report.fields[k].elementId = TableOrder[k]
            /\ report.fields[k].status \in Statuses

\* The validator has answered the empty string with fifteen results.
C21_Witness ==
  /\ pc = "validated"
  /\ raw = <<>>
  /\ Len(report.fields) = 15
  /\ report.fields[1].status = "MISSING_IN_SCAN"

\* C26: scannedValue is the sentinel MISSING exactly when the raw string has
\* no line for the tag; with a line it is the characters after the tag, so a
\* result with status MATCH or FORMAT_ERROR that came from a found line never
\* carries the sentinel.
C26_Sentinel ==
  pc = "validated" =>
    LET lines == Lines(raw)
    IN \A k \in 1..Len(RuleTags) :
         LET tag == RuleTags[k]
             field == report.fields[k]
         IN /\ field.scannedValue = MISSING <=> LinesOf(lines, tag) = {}
            /\ LinesOf(lines, tag) # {} =>
                 /\ field.scannedValue = ScannedOf(lines, tag)
                 /\ field.status \in {"MATCH", "FORMAT_ERROR"} =>
                      field.scannedValue # MISSING

-----------------------------------------------------------------------------
(* The rule table *)

\* v has between lo and hi characters, all of them in the set.
Over(v, lo, hi, set) == Len(v) \in lo..hi /\ Range(v) \subseteq set

Letters == {Ord(c) : c \in {"A", "B", "C", "D", "E", "F", "G", "H", "I", "J", "K", "L", "M",
                           "N", "O", "P", "Q", "R", "S", "T", "U", "V", "W", "X", "Y", "Z"}}
Digits == {Ord(c) : c \in {"0", "1", "2", "3", "4", "5", "6", "7", "8", "9"}}
\* The white-space characters: tab, line feed, vertical tab, form feed,
\* carriage return and space.
WhiteSpace == {9, 10, 11, 12, 13, 32}

-----------------------------------------------------------------------------
(* The encoder's records under the strict header check *)

\* C25: every record the encoder returns passes the strict header check: it
\* starts with '@', then LF RS CR, then 'ANSI ', holds '10' at characters
\* 15..16, and the integer read from characters 23..26 is 31.
C25_StrictHeader ==
  pc = "generated" => StrictErrors(raw) = <<>>

-----------------------------------------------------------------------------
(* The encoder's records under the validator's tokenization *)

\* The value the encoder wrote for the tag: its subfield without the tag.
Written(fields, tag) ==
  LET i == CHOOSE j \in 1..Len(fields) : TagOf(fields[j]) = tag
  IN SubSeq(fields[i], 4, Len(fields[i]))

\* C27: in every record the encoder returns, and for every tag of the rule
\* table, the validator's tokenization finds a line that starts with the tag,
\* and the value it takes from the first such line is the value the encoder
\* wrote for the tag.
C27_Tokenized ==
  pc = "generated" =>
    LET lines == Lines(raw)
    IN \A k \in 1..Len(RuleTags) :
         /\ LinesOf(lines, RuleTags[k]) # {}
         /\ ScannedOf(lines, RuleTags[k]) = Written(subfields, RuleTags[k])

-----------------------------------------------------------------------------
(* The placeholders under the rule table *)

\* The tags of the rule table whose rule accepts what the encoder writes for
\* an empty input (NONE, or USA for the country), and those whose rule does
\* not (NONE for the dates, the sex, the eye colour, the state and the postal
\* code, unavl for the height).
PlaceholderPasses == {DAQ, DCS, DAC, DAD, DAG, DAI, DCG}
PlaceholderFails == {DBB, DBA, DBD, DBC, DAY, DAU, DAJ, DAK}

\* The metadata fields hold no separator, so that no tag is shadowed.
PlainMetadata(data) ==
  \A key \in {IIN, JurisdictionVersion, subfileType} :
    NoSeparator(Or(Get(data, key), <<>>))

-----------------------------------------------------------------------------
(* The scan service *)

\* C23: scanDLWithGemini fails with an error, and returns no mapping, when
\* the response has no text or an empty text and when the text is not
\* parseable JSON: an empty response never becomes an empty mapping.
C23_ExplicitFailure ==
  pc \in {"extracted", "rejected"} =>
    /\ Falsy(responseText) => (pc = "rejected" /\ scanOut.threw)
    /\ (~Falsy(responseText) /\ JSONparse(responseText).threw) =>
         (pc = "rejected" /\ scanOut.threw)

-----------------------------------------------------------------------------
(* Calls made one after another *)

\* C24: however the calls of the encoder and the validator follow one
\* another, the rule table is as it was created (every lastIndex is 0), the
\* caller's FieldSet is the one it held at the start, the record is the one
\* the encoder returns for that FieldSet when called alone, and the report
\* is the one the validator returns for its record and FieldSet when called
\* alone.
C24_NoState ==
  pc \in {"no call", "one call", "calls"} =>
    /\ lastIndex = [k \in 1..Len(RuleTags) |-> 0]
    /\ formData \in CallFieldSets
    /\ raw # <<>> =>
         /\ raw = generateAAMVAString(formData)
         /\ subfields = Subfields(formData)
    /\ report # NoReport =>
         /\ expected = formData
         /\ report = validateAAMVAStructure(report.rawString, formData)

\* After more than one call the caller holds a record and a report for it.
C24_Witness ==
  /\ pc = "calls"
  /\ formData = Populated
  /\ raw = generateAAMVAString(Populated)
  /\ report.rawString = raw
  /\ report.overallScore = 100

-----------------------------------------------------------------------------
(* The scan of the App *)

\* C29: every scan that handleImageScan starts ends with isScanning false:
\* whenever the flag is true, it is false again later.
C29_ScanEnds == isScanning ~> ~isScanning

\* C30: a scan that completes overwrites nothing the user did while it was
\* pending: it leaves the screen the user moved to, the jurisdiction the user
\* selected and every field the user typed into or set as they are; and a
\* scan starts only when none is pending, so at most one is pending at any
\* time.
C30_NoOverwrite ==
  /\ [](~isScanning => scanPc = "none")
  /\ [][(scanPc = "extracting" /\ scanPc' = "none") =>
          /\ theStep \in touched => step' = step
          /\ theJurisdiction \in touched => selectedJurisdiction' = selectedJurisdiction
          /\ \A tag \in touched \ {theStep, theJurisdiction} :
               Get(formData', tag) = Get(formData, tag)]_vars

====
